---- MODULE Spec2Model ----
(***************************************************************************)
(* Model of server.js: an Express application holding an in-memory list    *)
(* of product records, with list/get/create/update/delete routes, a        *)
(* statistics route, an API-key middleware and an error middleware.        *)
(*                                                                         *)
(* JavaScript values are tagged records [t |-> type, v |-> payload].       *)
(* JavaScript strings are sequences of one-character strings, so that      *)
(* toLowerCase, includes, parseInt and Number are computed on characters.  *)
(***************************************************************************)
EXTENDS Integers, Sequences, FiniteSets

(* ------------------------------ bounds -------------------------------- *)

\* successful create/update/delete requests in one behaviour
MaxMutations == 2

\* page query values are the decimal strings of MinPage..MaxPage
MaxPage == 3

\* how far below zero the page query values go
MaxNegativePage == 2

MinPage == 0 - MaxNegativePage

\* limit query values are the decimal strings of 0..MaxLimit
MaxLimit == 2

(* --------------------------- JavaScript values ------------------------ *)

Undefined == [t |-> "undefined", v |-> 0]

Null == [t |-> "null", v |-> 0]

NaN == [t |-> "NaN", v |-> 0]

Bool(b) == [t |-> "boolean", v |-> b]

Num(n) == [t |-> "number", v |-> n]

Str(s) == [t |-> "string", v |-> s]

Obj(r) == [t |-> "object", v |-> r]

Arr(a) == [t |-> "array", v |-> a]

\* ToBoolean: undefined, null, false, 0, NaN and "" are falsy
Truthy(x) ==
    CASE x.t = "undefined" -> FALSE
      [] x.t = "null"      -> FALSE
      [] x.t = "NaN"       -> FALSE
      [] x.t = "boolean"   -> x.v
      [] x.t = "number"    -> x.v # 0
      [] x.t = "string"    -> x.v # << >>
      [] OTHER             -> TRUE

\* the typeof operator
TypeOf(x) ==
    CASE x.t = "NaN"   -> "number"
      [] x.t = "null"  -> "object"
      [] x.t = "array" -> "object"
      [] OTHER         -> x.t

\* a || b
CoalesceFalsy(a, b) == IF Truthy(a) THEN a ELSE b

\* a ?? b
Coalesce(a, b) == IF a.t \in {"undefined", "null"} THEN b ELSE a

(* ------------------------------ strings ------------------------------- *)

UpperCase == <<"A","B","C","D","E","F","G","H","I","J","K","L","M",
               "N","O","P","Q","R","S","T","U","V","W","X","Y","Z">>

LowerCase == <<"a","b","c","d","e","f","g","h","i","j","k","l","m",
               "n","o","p","q","r","s","t","u","v","w","x","y","z">>

DecimalDigits == <<"0","1","2","3","4","5","6","7","8","9">>

LowerChar(c) ==
    IF \E i \in 1..Len(UpperCase) : UpperCase[i] = c
    THEN LowerCase[CHOOSE i \in 1..Len(UpperCase) : UpperCase[i] = c]
    ELSE c

\* String.prototype.toLowerCase on the characters of s
toLowerCase(s) == [i \in 1..Len(s) |-> LowerChar(s[i])]

\* String.prototype.includes
includes(s, sub) ==
    \E i \in 0..(Len(s) - Len(sub)) : SubSeq(s, i + 1, i + Len(sub)) = sub

IsDigit(c) == \E d \in 1..10 : DecimalDigits[d] = c

DigitVal(c) == (CHOOSE d \in 1..10 : DecimalDigits[d] = c) - 1

RECURSIVE DigitsValue(_)
DigitsValue(s) ==
    IF s = << >> THEN 0
    ELSE 10 * DigitsValue(SubSeq(s, 1, Len(s) - 1)) + DigitVal(s[Len(s)])

\* the longest prefix of s made of decimal digits
DigitPrefix(s) ==
    LET k == CHOOSE n \in 0..Len(s) :
                 /\ \A i \in 1..n : IsDigit(s[i])
                 /\ (n < Len(s) => ~IsDigit(s[n + 1]))
    IN  SubSeq(s, 1, k)

HasSign(s) == s # << >> /\ s[1] \in {"-", "+"}

Unsigned(s) == IF HasSign(s) THEN SubSeq(s, 2, Len(s)) ELSE s

Signed(s, n) == IF s # << >> /\ s[1] = "-" THEN 0 - n ELSE n

\* parseInt(x): a number is returned as it is (integers only here); of a
\* string, an optional sign and the longest run of digits that follows
parseInt(x) ==
    IF x.t = "number" THEN x
    ELSE IF x.t # "string" THEN NaN
    ELSE LET p == DigitPrefix(Unsigned(x.v))
         IN  IF p = << >> THEN NaN ELSE Num(Signed(x.v, DigitsValue(p)))

\* ToNumber(x), the coercion of the - * / operators: the whole string must
\* be a decimal integer literal; the empty string is 0
ToNumber(x) ==
    IF x.t = "number" THEN x
    ELSE IF x.t # "string" THEN NaN
    ELSE IF x.v = << >> THEN Num(0)
    ELSE LET u == Unsigned(x.v)
         IN  IF u # << >> /\ DigitPrefix(u) = u
             THEN Num(Signed(x.v, DigitsValue(u)))
             ELSE NaN

\* the decimal string of an integer, as a client writes it in a query
RECURSIVE NatStr(_)
NatStr(n) ==
    IF n < 10 THEN <<DecimalDigits[n + 1]>>
    ELSE Append(NatStr(n \div 10), DecimalDigits[(n % 10) + 1])

IntStr(n) == IF n < 0 THEN <<"-">> \o NatStr(0 - n) ELSE NatStr(n)

(* ----------------------------- arithmetic ----------------------------- *)

JsSub(a, b) == IF a.t = "NaN" \/ b.t = "NaN" THEN NaN ELSE Num(a.v - b.v)

JsMul(a, b) == IF a.t = "NaN" \/ b.t = "NaN" THEN NaN ELSE Num(a.v * b.v)

JsAdd(a, b) == IF a.t = "NaN" \/ b.t = "NaN" THEN NaN ELSE Num(a.v + b.v)

\* a number as res.json writes it: NaN and Infinity become null
JsonNumber(x) == IF x.t = "NaN" THEN Null ELSE x

\* Math.ceil(n / d) as res.json writes it, for a length n >= 0
CeilDiv(n, d) ==
    IF d.t = "NaN" \/ d.v = 0 THEN Null
    ELSE IF d.v > 0 THEN Num((n + d.v - 1) \div d.v)
    ELSE Num(0 - (n \div (0 - d.v)))

(* ------------------------------- arrays ------------------------------- *)

\* ToIntegerOrInfinity of a slice argument, then its clamping to 0..len
RelativeIndex(x, len) ==
    LET n == IF x.t = "NaN" THEN 0 ELSE x.v
    IN  IF n < 0 THEN (IF len + n < 0 THEN 0 ELSE len + n)
        ELSE (IF n > len THEN len ELSE n)

\* Array.prototype.slice(start, end)
slice(arr, start, end) ==
    LET k     == RelativeIndex(start, Len(arr))
        final == RelativeIndex(end, Len(arr))
    IN  SubSeq(arr, k + 1, final)

\* Array.prototype.findIndex((p) => p.id === id): 0-based, -1 when absent
findIndex(arr, id) ==
    IF \E i \in 1..Len(arr) : arr[i].id = id
    THEN (CHOOSE i \in 1..Len(arr) :
              arr[i].id = id /\ \A j \in 1..(i - 1) : arr[j].id # id) - 1
    ELSE -1

(* ------------------------------ literals ------------------------------ *)

\* 'mysecretapikey', the key authenticate compares with
SecretKey == <<"m","y","s","e","c","r","e","t","a","p","i","k","e","y">>

WrongKey == <<"w","r","o","n","g","k","e","y">>

Laptop == <<"L","a","p","t","o","p">>

LaptopDescription ==
    <<"H","i","g","h","-","p","e","r","f","o","r","m","a","n","c","e"," ",
      "l","a","p","t","o","p"," ","w","i","t","h"," ","1","6","G","B"," ",
      "R","A","M">>

Smartphone == <<"S","m","a","r","t","p","h","o","n","e">>

SmartphoneDescription ==
    <<"L","a","t","e","s","t"," ","m","o","d","e","l"," ","w","i","t","h",
      " ","1","2","8","G","B"," ","s","t","o","r","a","g","e">>

CoffeeMaker == <<"C","o","f","f","e","e"," ","M","a","k","e","r">>

CoffeeMakerDescription ==
    <<"P","r","o","g","r","a","m","m","a","b","l","e"," ","c","o","f","f",
      "e","e"," ","m","a","k","e","r"," ","w","i","t","h"," ","t","i","m",
      "e","r">>

Electronics == <<"e","l","e","c","t","r","o","n","i","c","s">>

ElectronicsUpper == <<"E","L","E","C","T","R","O","N","I","C","S">>

KitchenLower == <<"k","i","t","c","h","e","n">>

KitchenCapital == <<"K","i","t","c","h","e","n">>

Mouse == <<"M","o","u","s","e">>

Wireless == <<"W","i","r","e","l","e","s","s">>

StatsSegment == <<"s","t","a","t","s">>

\* the products array the module starts with
SeedProducts ==
    << [id |-> Str(<<"1">>), name |-> Str(Laptop),
        description |-> Str(LaptopDescription), price |-> Num(1200),
        category |-> Str(Electronics), inStock |-> Bool(TRUE)],
       [id |-> Str(<<"2">>), name |-> Str(Smartphone),
        description |-> Str(SmartphoneDescription), price |-> Num(800),
        category |-> Str(Electronics), inStock |-> Bool(TRUE)],
       [id |-> Str(<<"3">>), name |-> Str(CoffeeMaker),
        description |-> Str(CoffeeMakerDescription), price |-> Num(50),
        category |-> Str(KitchenLower), inStock |-> Bool(FALSE)] >>

\* the fields the create and update handlers read from req.body
Fields == {"name", "description", "price", "category", "inStock"}

(* ------------------------------- inputs ------------------------------- *)

\* req.body of a request without a JSON body: body-parser leaves {}
EmptyBody ==
    [id |-> Undefined, name |-> Undefined, description |-> Undefined,
     price |-> Undefined, category |-> Undefined, inStock |-> Undefined]

MouseBody ==
    [EmptyBody EXCEPT !.name = Str(Mouse), !.description = Str(Wireless),
                      !.price = Num(25), !.category = Str(Electronics),
                      !.inStock = Bool(TRUE)]

\* the request bodies that are sent: fields omitted, null, falsy, of the
\* wrong type, and a body that carries an id
Bodies ==
    { EmptyBody,
      [EmptyBody EXCEPT !.id = Str(<<"1">>), !.price = Num(0),
                        !.inStock = Bool(FALSE)],
      [EmptyBody EXCEPT !.name = Null, !.category = Str(KitchenCapital)],
      MouseBody,
      [MouseBody EXCEPT !.inStock = Str(<<"y","e","s">>)],
      [MouseBody EXCEPT !.id = Str(<<"1">>), !.name = Num(5),
                        !.price = Str(<<"9">>), !.category = Bool(TRUE)] }

\* the values of the x-api-key header
ApiKeys == {Undefined, Str(WrongKey), Str(SecretKey)}

\* the n-th value uuidv4 returns
UuidOf(n) == Str(<<"u","u","i","d","-">> \o NatStr(n))

\* the :id path segments that are requested
PathIds == {Str(<<"2">>), UuidOf(1), Str(<<"9">>)}

CategoryInputs == {Undefined, Str(ElectronicsUpper)}

SearchInputs == {Undefined, Str(<<"O">>)}

PageInputs == {Undefined} \cup {Str(IntStr(n)) : n \in MinPage..MaxPage}

LimitInputs == {Undefined} \cup {Str(IntStr(n)) : n \in 0..MaxLimit}

EmptyQuery ==
    [category |-> Undefined, search |-> Undefined,
     page |-> Undefined, limit |-> Undefined]

(* -------------------------------- state ------------------------------- *)

VARIABLES
    products,    \* the in-memory array of product records
    uuidCount,   \* how many ids uuidv4 has returned
    req,         \* the request being answered, NoRequest between requests
    res,         \* the response sent to it
    before,      \* the products array when that request arrived
    mutations    \* successful create/update/delete requests so far

vars == <<products, uuidCount, req, res, before, mutations>>

(* ----------------------------- middleware ----------------------------- *)

Message(status, text) == [status |-> status, body |-> Obj([message |-> text])]

\* authenticate: TRUE when next() is called, FALSE when 401 is sent
authenticateAnd(apiKey) == ~(~Truthy(apiKey) /\ apiKey # Str(SecretKey))

authenticate(apiKey) == ~(~Truthy(apiKey) \/ apiKey # Str(SecretKey))

Unauthorized == Message(401, "Unauthorized: Invalid or missing API key")

\* the error middleware, for an error without status: a TypeError
ErrorHandler(message) == Message(500, message)

(* ------------------------ GET /api/products --------------------------- *)

StartIndexOffByOne(page, limit) == JsMul(ToNumber(page), ToNumber(limit))

\* const startIndex = (page - 1) * limit
StartIndex(page, limit) == JsMul(JsSub(ToNumber(page), Num(1)), ToNumber(limit))

\* const endIndex = startIndex + parseInt(limit)
EndIndex(startIndex, limit) == JsAdd(startIndex, parseInt(limit))

\* product.category.toLowerCase() === category.toLowerCase()
CategoryMatches(product, category) ==
    toLowerCase(product.category.v) = toLowerCase(category.v)

\* product.name.toLowerCase().includes(search.toLowerCase())
NameMatches(product, search) ==
    includes(toLowerCase(product.name.v), toLowerCase(search.v))

\* calling toLowerCase on a value that is not a string throws a TypeError
ThrowsOn(arr, field) == \E i \in 1..Len(arr) : arr[i][field].t # "string"

ListHandler(prods, query) ==
    LET category == query.category
        search   == query.search
        page     == IF query.page.t = "undefined" THEN Num(1) ELSE query.page
        limit    == IF query.limit.t = "undefined" THEN Num(10) ELSE query.limit
        byCategory ==
            IF Truthy(category)
            THEN SelectSeq(prods, LAMBDA p : CategoryMatches(p, category))
            ELSE prods
        filteredProducts ==
            IF Truthy(search)
            THEN SelectSeq(byCategory, LAMBDA p : NameMatches(p, search))
            ELSE byCategory
        startIndex == StartIndex(page, limit)
        endIndex   == EndIndex(startIndex, limit)
        paginatedProducts == slice(filteredProducts, startIndex, endIndex)
    IN  IF Truthy(category) /\ ThrowsOn(prods, "category")
        THEN ErrorHandler("product.category.toLowerCase is not a function")
        ELSE IF Truthy(search) /\ ThrowsOn(byCategory, "name")
        THEN ErrorHandler("product.name.toLowerCase is not a function")
        ELSE [status |-> 200,
              body |-> Obj([totalProducts |-> Num(Len(filteredProducts)),
                            currentPage   |-> JsonNumber(parseInt(page)),
                            totalPages    |-> CeilDiv(Len(filteredProducts),
                                                      ToNumber(limit)),
                            products      |-> Arr(paginatedProducts)])]

(* ---------------------- GET /api/products/:id ------------------------- *)

GetByIdHandler(prods, id) ==
    LET productIndex == findIndex(prods, id)
    IN  IF productIndex = -1
        THEN Message(404, "Product not found")
        ELSE [status |-> 200, body |-> Obj(prods[productIndex + 1])]

(* --------------------- GET /api/products/stats ------------------------ *)

\* the property key a category value is converted to
PropertyKey(x) ==
    CASE x.t = "string"  -> x.v
      [] x.t = "number"  -> IntStr(x.v)
      [] x.t = "boolean" -> IF x.v THEN <<"t","r","u","e">>
                                   ELSE <<"f","a","l","s","e">>
      [] OTHER           -> <<"?">>

CountByCategory(prods) ==
    LET keys == {PropertyKey(prods[i].category) : i \in 1..Len(prods)}
    IN  [k \in keys |->
            Num(Cardinality({i \in 1..Len(prods) :
                                 PropertyKey(prods[i].category) = k}))]

StatsHandler(prods) ==
    [status |-> 200,
     body |-> Obj([totalProducts   |-> Num(Len(prods)),
                   countByCategory |-> Obj(CountByCategory(prods))])]

(* ------------------------ POST /api/products -------------------------- *)

Unshift(arr, x) == <<x>> \o arr

\* products.push(newProduct)
Push(arr, x) == Append(arr, x)

\* uuidv4(): a string no earlier call returned, and never a seed id
uuidv4(count) == UuidOf(count + 1)

NewProductLengthId(body, count, prods) ==
    [id |-> Str(IntStr(Len(prods) + 1)), name |-> body.name,
     description |-> body.description, price |-> body.price,
     category |-> body.category, inStock |-> body.inStock]

\* const newProduct = { id: uuidv4(), name, description, price, ... }
NewProduct(body, count, prods) ==
    [id |-> uuidv4(count), name |-> body.name,
     description |-> body.description, price |-> body.price,
     category |-> body.category, inStock |-> body.inStock]

\* the condition under which the create handler answers 400
Invalid(body) ==
    \/ ~Truthy(body.name)
    \/ ~Truthy(body.description)
    \/ ~Truthy(body.price)
    \/ ~Truthy(body.category)
    \/ TypeOf(body.inStock) # "boolean"

CreateHandler(prods, count, body) ==
    IF Invalid(body)
    THEN [products |-> prods, uuidCount |-> count,
          res |-> Message(400,
                 "All fields are required and inStock must be boolean")]
    ELSE LET newProduct == NewProduct(body, count, prods)
         IN  [products |-> Push(prods, newProduct), uuidCount |-> count + 1,
              res |-> [status |-> 201, body |-> Obj(newProduct)]]

(* ---------------------- PUT /api/products/:id ------------------------- *)

InsertAt(arr, i, x) == SubSeq(arr, 1, i) \o <<x>> \o SubSeq(arr, i + 1, Len(arr))

\* products[productIndex] = x, with a 0-based index
ReplaceAt(arr, i, x) == [arr EXCEPT ![i + 1] = x]

MergedFalsy(old, body) ==
    [id          |-> old.id,
     name        |-> CoalesceFalsy(body.name, old.name),
     description |-> CoalesceFalsy(body.description, old.description),
     price       |-> CoalesceFalsy(body.price, old.price),
     category    |-> CoalesceFalsy(body.category, old.category),
     inStock     |-> CoalesceFalsy(body.inStock, old.inStock)]

\* { ...products[productIndex], name: name ?? products[productIndex].name, ... }
Merged(old, body) ==
    [id          |-> old.id,
     name        |-> Coalesce(body.name, old.name),
     description |-> Coalesce(body.description, old.description),
     price       |-> Coalesce(body.price, old.price),
     category    |-> Coalesce(body.category, old.category),
     inStock     |-> Coalesce(body.inStock, old.inStock)]

UpdateHandler(prods, id, body) ==
    LET productIndex == findIndex(prods, id)
    IN  IF productIndex = -1
        THEN [products |-> prods, res |-> Message(404, "Product not found")]
        ELSE LET updated == ReplaceAt(prods, productIndex,
                                      Merged(prods[productIndex + 1], body))
             IN  [products |-> updated,
                  res |-> [status |-> 200,
                           body |-> Obj(updated[productIndex + 1])]]

(* --------------------- DELETE /api/products/:id ----------------------- *)

\* what products.splice(i) leaves, the delete count forgotten
SpliceToEndRest(arr, i) == SubSeq(arr, 1, i)

\* what products.splice(i, 1) returns, with a 0-based index
SpliceRemoved(arr, i) == SubSeq(arr, i + 1, i + 1)

\* what products.splice(i, 1) leaves in products
SpliceRest(arr, i) == SubSeq(arr, 1, i) \o SubSeq(arr, i + 2, Len(arr))

DeleteHandler(prods, id) ==
    LET productIndex == findIndex(prods, id)
    IN  IF productIndex = -1
        THEN [products |-> prods, res |-> Message(404, "Product not found")]
        ELSE [products |-> SpliceRest(prods, productIndex),
              res |-> [status |-> 200,
                       body |-> Obj([message |-> "Product deleted successfully",
                                     deletedProduct |->
                                         Arr(SpliceRemoved(prods, productIndex))])]]

(* ------------------------------ routing ------------------------------- *)

\* the GET routes under /api/products, in the order they are registered
GetRoutes == <<"list", "byId", "stats">>

\* whether a route's path pattern matches the segment after /api/products
RouteMatches(route, segment) ==
    CASE route = "list"  -> segment = Undefined
      [] route = "byId"  -> segment # Undefined
      [] route = "stats" -> segment = Str(StatsSegment)

\* Express runs the first registered route that matches
Route(segment) ==
    GetRoutes[CHOOSE i \in 1..Len(GetRoutes) :
                  /\ RouteMatches(GetRoutes[i], segment)
                  /\ \A j \in 1..(i - 1) : ~RouteMatches(GetRoutes[j], segment)]

\* the whole handling of request r: the new array, uuid count and response
Handle(prods, count, r) ==
    LET same(response) ==
            [products |-> prods, uuidCount |-> count, res |-> response]
        keep(result) ==
            [products |-> result.products, uuidCount |-> count,
             res |-> result.res]
    IN  CASE r.method = "GET" ->
               (LET route == Route(r.id)
                IN  CASE route = "list"  -> same(ListHandler(prods, r.query))
                      [] route = "byId"  -> same(GetByIdHandler(prods, r.id))
                      [] route = "stats" -> same(StatsHandler(prods)))
          [] r.method = "POST" ->
               IF authenticate(r.key)
               THEN CreateHandler(prods, count, r.body)
               ELSE same(Unauthorized)
          [] r.method = "PUT" ->
               IF authenticate(r.key)
               THEN keep(UpdateHandler(prods, r.id, r.body))
               ELSE same(Unauthorized)
          [] r.method = "DELETE" ->
               IF authenticate(r.key)
               THEN keep(DeleteHandler(prods, r.id))
               ELSE same(Unauthorized)

Request(method, id, key, body, query) ==
    [method |-> method, id |-> id, key |-> key, body |-> body, query |-> query]

\* no request is being handled
NoRequest == Request("NONE", Undefined, Undefined, EmptyBody, EmptyQuery)

NoResponse == [status |-> 0, body |-> Undefined]

IsMutation(r, response) ==
    r.method \in {"POST", "PUT", "DELETE"} /\ response.status \in {200, 201}

\* one request is received and handled to completion: every handler is
\* synchronous, so no other request runs in between
Serve(r) ==
    LET result == Handle(products, uuidCount, r)
    IN  /\ req = NoRequest
        /\ IsMutation(r, result.res) => mutations < MaxMutations
        /\ products' = result.products
        /\ uuidCount' = result.uuidCount
        /\ req' = r
        /\ res' = result.res
        /\ before' = products
        /\ mutations' = IF IsMutation(r, result.res)
                        THEN mutations + 1 ELSE mutations

(* ------------------------------ actions ------------------------------- *)

ListProducts ==
    \E category \in CategoryInputs, search \in SearchInputs,
       page \in PageInputs, limit \in LimitInputs :
        Serve(Request("GET", Undefined, Undefined, EmptyBody,
                      [category |-> category, search |-> search,
                       page |-> page, limit |-> limit]))

GetProduct ==
    \E id \in PathIds :
        Serve(Request("GET", id, Undefined, EmptyBody, EmptyQuery))

GetStats ==
    Serve(Request("GET", Str(StatsSegment), Undefined, EmptyBody, EmptyQuery))

CreateProduct ==
    \E key \in ApiKeys, body \in Bodies :
        Serve(Request("POST", Undefined, key, body, EmptyQuery))

UpdateProduct ==
    \E key \in ApiKeys, id \in PathIds, body \in Bodies :
        Serve(Request("PUT", id, key, body, EmptyQuery))

DeleteProduct ==
    \E key \in ApiKeys, id \in PathIds :
        Serve(Request("DELETE", id, key, EmptyBody, EmptyQuery))

\* the response has been sent: the req and res objects are dropped
Finish ==
    /\ req # NoRequest
    /\ req' = NoRequest
    /\ res' = NoResponse
    /\ before' = products
    /\ UNCHANGED <<products, uuidCount, mutations>>

Init ==
    /\ products = SeedProducts
    /\ uuidCount = 0
    /\ req = NoRequest
    /\ res = NoResponse
    /\ before = SeedProducts
    /\ mutations = 0

Next ==
    \/ ListProducts
    \/ GetProduct
    \/ GetStats
    \/ CreateProduct
    \/ UpdateProduct
    \/ DeleteProduct
    \/ Finish

Spec == Init /\ [][Next]_vars

(* ----------------------------- properties ----------------------------- *)

IsList == req.method = "GET" /\ req.id = Undefined

Authorized == req.key = Str(SecretKey)

Present(prods, id) == \E i \in 1..Len(prods) : prods[i].id = id

Min(a, b) == IF a < b THEN a ELSE b

Max(a, b) == IF a > b THEN a ELSE b

\* the records a list query selects: category equal ignoring case, and
\* name containing the search string ignoring case
Selected(prods, query) ==
    SelectSeq(prods, LAMBDA p :
        /\ query.category # Undefined =>
               /\ p.category.t = "string"
               /\ toLowerCase(p.category.v) = toLowerCase(query.category.v)
        /\ query.search # Undefined =>
               /\ p.name.t = "string"
               /\ includes(toLowerCase(p.name.v), toLowerCase(query.search.v)))

\* C1: a GET /api/products/stats request is answered 200 with the size of
\* the collection and the count of records of each category, never 404.
C1_StatsAnswered ==
    (req.method = "GET" /\ req.id = Str(StatsSegment)) =>
        /\ res.status = 200
        /\ res.body.v.totalProducts = Num(Len(products))
        /\ res.body.v.countByCategory = Obj(CountByCategory(products))

\* C2: a create, update or delete request whose x-api-key header is absent
\* or is not the shared secret is answered 401, whatever its body and id,
\* and leaves the collection as it was.
C2_UnauthorizedRejected ==
    (req.method \in {"POST", "PUT", "DELETE"} /\ ~Authorized) =>
        /\ res.status = 401
        /\ products = before

C2_Witness ==
    /\ req.method = "PUT"
    /\ req.key = Str(WrongKey)
    /\ Present(before, req.id)
    /\ req.body = MouseBody
    /\ res.status = 401

\* C3: an update with the key and an existing id is answered 200 and
\* replaces the addressed record in place: each of the five fields is the
\* request's value when that is present and not null (false and 0
\* included) and the prior value otherwise; the id, the position and all
\* other records are unchanged.
C3_UpdateMerges ==
    (req.method = "PUT" /\ Authorized /\ Present(before, req.id)) =>
        LET i == CHOOSE k \in 1..Len(before) : before[k].id = req.id
        IN  /\ res.status = 200
            /\ Len(products) = Len(before)
            /\ \A j \in 1..Len(before) : j # i => products[j] = before[j]
            /\ products[i].id = before[i].id
            /\ \A f \in Fields :
                   products[i][f] =
                       IF req.body[f].t \in {"undefined", "null"}
                       THEN before[i][f] ELSE req.body[f]
            /\ res.body = Obj(products[i])

C3_Witness ==
    /\ req.method = "PUT"
    /\ res.status = 200
    /\ req.body.price = Num(0)
    /\ req.body.inStock = Bool(FALSE)
    /\ req.body.name = Undefined
    /\ products # before

\* C4: no two records of the collection have the same id, whatever
\* create, update and delete requests were made, bodies with an id field
\* included.
C4_UniqueIds ==
    \A i, j \in 1..Len(products) : products[i].id = products[j].id => i = j

C4_Witness ==
    /\ req.method = "POST"
    /\ res.status = 201
    /\ req.body.id # Undefined
    /\ Len(before) < Len(SeedProducts)

\* C5: after a delete of id X with the key, no record has id X, a get of
\* X is answered 404, and the records of other ids are all there,
\* unchanged and in the same order; when X was absent the answer is 404
\* and the collection is unchanged.
C5_DeleteRemoves ==
    (req.method = "DELETE" /\ Authorized) =>
        /\ ~Present(products, req.id)
        /\ GetByIdHandler(products, req.id).status = 404
        /\ products = SelectSeq(before, LAMBDA p : p.id # req.id)
        /\ Present(before, req.id) => res.status = 200
        /\ ~Present(before, req.id) => (res.status = 404 /\ products = before)

C5_Witness ==
    /\ req.method = "DELETE"
    /\ res.status = 200
    /\ Len(before) >= 3
    /\ before[2].id = req.id
    /\ Len(products) = Len(before) - 1

\* C6: a list query with limit >= 1 and a page that is <= 0 or beyond the
\* last page is answered 200 with an empty products list.
C6_OutOfRangePageEmpty ==
    \A p \in MinPage..MaxPage, l \in 1..MaxLimit :
        (/\ IsList
         /\ req.query.page = Str(IntStr(p))
         /\ req.query.limit = Str(IntStr(l))
         /\ p <= 0 \/ (p - 1) * l >= Len(Selected(before, req.query))) =>
            /\ res.status = 200
            /\ res.body.v.products = Arr(<< >>)

C8_CreateAppends ==
    (/\ req.method = "POST"
     /\ Authorized
     /\ \A f \in Fields \ {"inStock"} : Truthy(req.body[f])
     /\ req.body.inStock.t = "boolean") =>
        /\ res.status = 201
        /\ \A f \in Fields : res.body.v[f] = req.body[f]
        /\ products = before \o <<res.body.v>>
        /\ GetByIdHandler(products, res.body.v.id) =
               [status |-> 200, body |-> res.body]

C8_Witness ==
    /\ req.method = "POST"
    /\ req.body = MouseBody
    /\ res.status = 201
    /\ Len(products) = Len(before) + 1

\* C9: every record of the collection has a non-empty string name, string
\* description and category, a number price and a boolean inStock, so a
\* list query is always answered 200.
C9_DataModel ==
    /\ \A i \in 1..Len(products) :
           /\ products[i].name.t = "string"
           /\ products[i].name.v # << >>
           /\ products[i].description.t = "string"
           /\ products[i].category.t = "string"
           /\ products[i].price.t = "number"
           /\ products[i].inStock.t = "boolean"
    /\ IsList => res.status = 200

\* C10: an update request applied a second time right after it was
\* applied leaves the collection and the returned record as they are.
C10_UpdateIdempotent ==
    (req.method = "PUT" /\ res.status = 200) =>
        LET again == Handle(products, uuidCount, req)
        IN  /\ again.products = products
            /\ again.res = res

C10_Witness ==
    /\ req.method = "PUT"
    /\ res.status = 200
    /\ products # before
    /\ \E f \in Fields : req.body[f] = Null

====
